---- MODULE Spec2Model ----
(***************************************************************************)
(* fsutils (src/src/lib.rs): Bash-like filesystem helpers.  Every helper   *)
(* is a guard (Path::exists) followed by one std::fs call whose Result is  *)
(* folded into a bool.  The model is the helper on top of a filesystem     *)
(* tree: a path is a sequence of names below the working directory, a node *)
(* is absent, a directory, or a regular file holding bytes.  The std::fs   *)
(* calls follow their Unix behaviour; no permission or I/O failure is      *)
(* modelled, so a call fails only for the shape of the tree.               *)
(***************************************************************************)
EXTENDS Integers, Sequences, FiniteSets, TLC

\* ------------------------------------------------------------------ bounds
\* Longest path, in components.
MaxDepth == 2
\* Longest file, in bytes (the guards of the writing actions cap it).
MaxLen == 2

\* Names of directory entries.
Names == {"a", "b"}
\* Code points of the texts written: 'A' (one UTF-8 byte) and U+00E9 (two).
Chars == {65, 233}
\* Byte values create_file_bytes writes: 'A', and the lead byte of U+00E9,
\* which alone is not UTF-8.
Bytes == {65, 195}
\* The two concurrent callers of mkdir.
Callers == {1, 2}

VARIABLES
    fs,     \* the filesystem below the working directory: path -> node
    pre,    \* the filesystem as the last call found it
    last,   \* the last call: helper, arguments, result, std calls it made
    call    \* per concurrent caller of mkdir: where it is in the helper

vars == <<fs, pre, last, call>>

\* ------------------------------------------------------------------ paths
SeqsUpTo(S, n) == UNION {[1..k -> S] : k \in 0..n}

Paths == SeqsUpTo(Names, MaxDepth) \ {<<>>}

Parent(p) == SubSeq(p, 1, Len(p) - 1)

IsPrefix(p, q) == Len(p) <= Len(q) /\ SubSeq(q, 1, Len(p)) = p

\* q with its leading a replaced by b
Rebase(q, a, b) == b \o SubSeq(q, Len(a) + 1, Len(q))

\* ------------------------------------------------------------------ nodes
None == [kind |-> "none", data |-> <<>>]
Dir == [kind |-> "dir", data |-> <<>>]
RegFile(d) == [kind |-> "file", data |-> d]

EmptyFs == [p \in Paths |-> None]

\* The node at p; the working directory itself is a directory.
Node(f, p) == IF p = <<>> THEN Dir ELSE f[p]

Children(f, p) == {q \in Paths : Parent(q) = p /\ f[q].kind # "none"}

\* Path resolution of a directory: "OK", or the errno of the first component
\* that is no directory.
RECURSIVE ResolveDir(_, _)
ResolveDir(f, p) ==
    IF p = <<>> THEN "OK"
    ELSE LET e == ResolveDir(f, Parent(p))
         IN  IF e # "OK" THEN e
             ELSE IF f[p].kind = "dir" THEN "OK"
             ELSE IF f[p].kind = "file" THEN "ENOTDIR"
             ELSE "ENOENT"

\* Path::exists: stat succeeds.
Exists(f, p) == ResolveDir(f, Parent(p)) = "OK" /\ Node(f, p).kind # "none"

\* Path::is_dir
IsDir(f, p) == Exists(f, p) /\ Node(f, p).kind = "dir"

Res(e, f) == [err |-> e, fs |-> f]

\* ------------------------------------------------------------------ UTF-8
\* str -> bytes (contents.as_ref()): the UTF-8 encoding of the text.
RECURSIVE Utf8Encode(_)
Utf8Encode(t) ==
    IF t = <<>> THEN <<>>
    ELSE LET c == Head(t)
         IN  (IF c < 128 THEN <<c>> ELSE <<192 + (c \div 64), 128 + (c % 64)>>)
             \o Utf8Encode(Tail(t))

\* bytes -> String (read_to_string): fails on bytes that are not UTF-8.
\* One- and two-byte forms, the only ones Bytes can spell.
RECURSIVE Utf8Decode(_)
Utf8Decode(b) ==
    IF b = <<>> THEN [ok |-> TRUE, text |-> <<>>]
    ELSE IF Head(b) < 128
    THEN LET r == Utf8Decode(Tail(b))
         IN  [ok |-> r.ok, text |-> IF r.ok THEN <<Head(b)>> \o r.text ELSE <<>>]
    ELSE IF Head(b) >= 194 /\ Head(b) <= 223 /\ Len(b) >= 2
            /\ b[2] >= 128 /\ b[2] <= 191
    THEN LET r == Utf8Decode(Tail(Tail(b)))
         IN  [ok |-> r.ok,
              text |-> IF r.ok THEN <<(Head(b) - 192) * 64 + (b[2] - 128)>> \o r.text
                       ELSE <<>>]
    ELSE [ok |-> FALSE, text |-> <<>>]

\* ------------------------------------------------------------ std::fs calls
\* mkdir(2), one level.
OsMkdir(f, p) ==
    LET e == ResolveDir(f, Parent(p))
    IN  IF e # "OK" THEN Res(e, f)
        ELSE IF f[p].kind # "none" THEN Res("EEXIST", f)
        ELSE Res("OK", [f EXCEPT ![p] = Dir])

\* fs::create_dir (not recursive): what a mkdir without -p would call.
CreateDirOnly(f, p) == OsMkdir(f, p)

\* fs::create_dir_all: mkdir; on ENOENT create the parent first and retry;
\* any other error is success when the path is a directory by then.
RECURSIVE CreateDirAll(_, _)
CreateDirAll(f, p) ==
    IF p = <<>> THEN Res("OK", f)
    ELSE LET r == OsMkdir(f, p)
         IN  IF r.err = "OK" THEN r
             ELSE IF r.err = "ENOENT"
             THEN LET up == CreateDirAll(f, Parent(p))
                  IN  IF up.err # "OK" THEN up
                      ELSE LET r2 == OsMkdir(up.fs, p)
                           IN  IF r2.err = "OK" \/ IsDir(r2.fs, p)
                               THEN Res("OK", r2.fs)
                               ELSE r2
             ELSE IF IsDir(f, p) THEN Res("OK", f)
             ELSE r

\* fs::remove_file: unlink(2).
RemoveFile(f, p) ==
    IF ~Exists(f, p) THEN Res(IF ResolveDir(f, Parent(p)) = "ENOTDIR"
                              THEN "ENOTDIR" ELSE "ENOENT", f)
    ELSE IF f[p].kind = "dir" THEN Res("EISDIR", f)
    ELSE Res("OK", [f EXCEPT ![p] = None])

\* A removal of a directory that does not ask whether it is empty.
RemoveDirForce(f, p) ==
    IF Exists(f, p) /\ f[p].kind = "dir"
    THEN Res("OK", [q \in Paths |-> IF IsPrefix(p, q) THEN None ELSE f[q]])
    ELSE Res("ENOENT", f)

\* fs::remove_dir: rmdir(2).
RemoveDir(f, p) ==
    IF ~Exists(f, p) THEN Res(IF ResolveDir(f, Parent(p)) = "ENOTDIR"
                              THEN "ENOTDIR" ELSE "ENOENT", f)
    ELSE IF f[p].kind # "dir" THEN Res("ENOTDIR", f)
    ELSE IF Children(f, p) # {} THEN Res("ENOTEMPTY", f)
    ELSE Res("OK", [f EXCEPT ![p] = None])

\* A removal that stops at the directory itself (fs::remove_dir).
RemoveDirShallow(f, p) == RemoveDir(f, p)

\* fs::remove_dir_all: the directory and everything below it; an error for a
\* root that is no directory.
RemoveDirAll(f, p) ==
    IF ~Exists(f, p) THEN Res(IF ResolveDir(f, Parent(p)) = "ENOTDIR"
                              THEN "ENOTDIR" ELSE "ENOENT", f)
    ELSE IF f[p].kind # "dir" THEN Res("ENOTDIR", f)
    ELSE Res("OK", [q \in Paths |-> IF IsPrefix(p, q) THEN None ELSE f[q]])

\* What is below a (a included) fits the path bound when moved to b.
Fits(f, a, b) ==
    \A q \in Paths :
        (IsPrefix(a, q) /\ f[q].kind # "none") => Len(b) + Len(q) - Len(a) <= MaxDepth

\* The tree with the subtree at a moved to b.
Moved(f, a, b) ==
    [q \in Paths |->
        IF IsPrefix(b, q)
        THEN (IF Rebase(q, b, a) \in Paths THEN f[Rebase(q, b, a)] ELSE None)
        ELSE IF IsPrefix(a, q) THEN None
        ELSE f[q]]

\* A rename that leaves the source in place (a copy).
RenameKeepsSource(f, a, b) ==
    IF Exists(f, a) /\ ResolveDir(f, Parent(b)) = "OK" /\ f[b].kind = "none"
       /\ ~IsPrefix(a, b)
    THEN Res("OK", [q \in Paths |->
                       IF IsPrefix(b, q)
                       THEN (IF Rebase(q, b, a) \in Paths THEN f[Rebase(q, b, a)]
                             ELSE None)
                       ELSE f[q]])
    ELSE Res("EINVAL", f)

\* fs::rename: rename(2).
Rename(f, a, b) ==
    IF ~Exists(f, a) THEN Res(IF ResolveDir(f, Parent(a)) = "ENOTDIR"
                              THEN "ENOTDIR" ELSE "ENOENT", f)
    ELSE IF ResolveDir(f, Parent(b)) # "OK" THEN Res(ResolveDir(f, Parent(b)), f)
    ELSE IF a = b THEN Res("OK", f)
    ELSE IF f[a].kind = "dir"
    THEN IF IsPrefix(a, b) THEN Res("EINVAL", f)
         ELSE IF f[b].kind = "file" THEN Res("ENOTDIR", f)
         ELSE IF f[b].kind = "dir" /\ Children(f, b) # {} THEN Res("ENOTEMPTY", f)
         ELSE Res("OK", Moved(f, a, b))
    ELSE IF f[b].kind = "dir" THEN Res("EISDIR", f)
         ELSE Res("OK", Moved(f, a, b))

\* An open for writing that does not truncate.
FileCreateKeeps(f, p) ==
    LET e == ResolveDir(f, Parent(p))
    IN  IF e # "OK" THEN Res(e, f)
        ELSE IF f[p].kind = "dir" THEN Res("EISDIR", f)
        ELSE IF f[p].kind = "file" THEN Res("OK", f)
        ELSE Res("OK", [f EXCEPT ![p] = RegFile(<<>>)])

\* File::create: open(O_WRONLY | O_CREAT | O_TRUNC).
FileCreate(f, p) ==
    LET e == ResolveDir(f, Parent(p))
    IN  IF e # "OK" THEN Res(e, f)
        ELSE IF f[p].kind = "dir" THEN Res("EISDIR", f)
        ELSE Res("OK", [f EXCEPT ![p] = RegFile(<<>>)])

\* An open for writing that truncates (no O_APPEND).
OpenTruncates(f, p) == FileCreate(f, p)

\* OpenOptions write+create+append: open(O_WRONLY | O_CREAT | O_APPEND).
OpenAppend(f, p) ==
    LET e == ResolveDir(f, Parent(p))
    IN  IF e # "OK" THEN Res(e, f)
        ELSE IF f[p].kind = "dir" THEN Res("EISDIR", f)
        ELSE IF f[p].kind = "file" THEN Res("OK", f)
        ELSE Res("OK", [f EXCEPT ![p] = RegFile(<<>>)])

\* write_all on a handle just opened: File::create leaves the file empty and
\* O_APPEND writes at the end, so the bytes follow what the file holds.
WriteAll(f, p, bytes) == [f EXCEPT ![p] = RegFile(f[p].data \o bytes)]

\* fs::read_dir: the entries of a directory (no "." or "..").
ReadDir(f, p) ==
    IF IsDir(f, p) THEN [err |-> "OK", entries |-> Children(f, p)]
    ELSE [err |-> IF Exists(f, p) THEN "ENOTDIR" ELSE "ENOENT", entries |-> {}]

\* ------------------------------------------------------------------ helpers
\* What a helper hands back: the filesystem it leaves, its bool, the String
\* of read_file, whether an unwrap() panicked, and the std calls it made.
Outcome(f, ret, calls) ==
    [fs |-> f, ret |-> ret, out |-> <<>>, panicked |-> FALSE, calls |-> calls]

\* pub fn path_exists
path_exists(f, path) == Outcome(f, Exists(f, path), <<"exists">>)

\* mkdir without its existence guard.
mkdir_unguarded(f, path) ==
    Outcome(CreateDirAll(f, path).fs, CreateDirAll(f, path).err = "OK",
            <<"create_dir_all">>)

\* pub fn mkdir
mkdir(f, path) ==
    IF ~path_exists(f, path).ret
    THEN LET r == CreateDirAll(f, path)
         IN  Outcome(r.fs, r.err = "OK", <<"exists", "create_dir_all">>)
    ELSE Outcome(f, FALSE, <<"exists">>)

\* rm that treats an absent path as done, as rmdir does.
rm_lenient(f, path) ==
    IF Exists(f, path)
    THEN Outcome(RemoveFile(f, path).fs, RemoveFile(f, path).err = "OK",
                 <<"exists", "remove_file">>)
    ELSE Outcome(f, TRUE, <<"exists">>)

\* pub fn rm
rm(f, path) ==
    IF Exists(f, path)
    THEN LET r == RemoveFile(f, path)
         IN  Outcome(r.fs, r.err = "OK", <<"exists", "remove_file">>)
    ELSE Outcome(f, FALSE, <<"exists">>)

\* pub fn rmdir
rmdir(f, path) ==
    IF Exists(f, path)
    THEN LET r == RemoveDir(f, path)
         IN  Outcome(r.fs, r.err = "OK", <<"exists", "remove_dir">>)
    ELSE Outcome(f, TRUE, <<"exists">>)

\* pub fn rm_r
rm_r(f, path) ==
    IF Exists(f, path)
    THEN LET r == RemoveDirAll(f, path)
         IN  Outcome(r.fs, r.err = "OK", <<"exists", "remove_dir_all">>)
    ELSE Outcome(f, TRUE, <<"exists">>)

\* The entry count of the earlier revision: one entry means empty.
directory_is_empty_count_one(f, path) ==
    IF Exists(f, path) /\ IsDir(f, path)
    THEN Outcome(f, Cardinality(ReadDir(f, path).entries) = 1,
                 <<"exists", "is_dir", "read_dir">>)
    ELSE Outcome(f, FALSE, <<"exists">>)

\* pub fn directory_is_empty: the outer loop runs over the Result of read_dir
\* (no turn for an Err), the inner one over the entries.
directory_is_empty(f, path) ==
    IF Exists(f, path)
    THEN IF IsDir(f, path)
         THEN LET rd == ReadDir(f, path)
                  i == IF rd.err = "OK" THEN Cardinality(rd.entries) ELSE 0
              IN  Outcome(f, i = 0, <<"exists", "is_dir", "read_dir">>)
         ELSE Outcome(f, FALSE, <<"exists", "is_dir">>)
    ELSE Outcome(f, FALSE, <<"exists">>)

\* pub fn mv
mv(f, path_one, path_two) ==
    IF Exists(f, path_one)
    THEN LET r == Rename(f, path_one, path_two)
         IN  Outcome(r.fs, r.err = "OK", <<"exists", "rename">>)
    ELSE Outcome(f, FALSE, <<"exists">>)

\* pub fn create_file
create_file(f, path) ==
    LET r == FileCreate(f, path)
    IN  Outcome(r.fs, r.err = "OK", <<"File::create">>)

\* pub fn create_file_bytes
create_file_bytes(f, path, bytes_to_write) ==
    LET r == FileCreate(f, path)
    IN  IF r.err = "OK"
        THEN Outcome(WriteAll(r.fs, path, bytes_to_write), TRUE,
                     <<"File::create", "write_all">>)
        ELSE Outcome(f, FALSE, <<"File::create">>)

\* pub fn write_file
write_file(f, path, contents) ==
    LET r == FileCreate(f, path)
    IN  IF r.err = "OK"
        THEN Outcome(WriteAll(r.fs, path, Utf8Encode(contents)), TRUE,
                     <<"File::create", "write_all">>)
        ELSE Outcome(f, FALSE, <<"File::create">>)

\* pub fn write_file_append
write_file_append(f, path, contents) ==
    LET r == OpenAppend(f, path)
    IN  IF r.err = "OK"
        THEN Outcome(WriteAll(r.fs, path, Utf8Encode(contents)), TRUE,
                     <<"open", "write_all">>)
        ELSE Outcome(f, FALSE, <<"open">>)

\* pub fn read_file: File::open succeeds on whatever exists; read_to_string
\* fails on a directory (EISDIR) and on bytes that are not UTF-8, and the
\* unwrap() then panics.
read_file(f, path) ==
    IF Exists(f, path)
    THEN IF f[path].kind = "dir"
         THEN [fs |-> f, ret |-> FALSE, out |-> <<>>, panicked |-> TRUE,
               calls |-> <<"File::open", "read_to_string">>]
         ELSE LET d == Utf8Decode(f[path].data)
              IN  [fs |-> f, ret |-> FALSE, out |-> d.text, panicked |-> ~d.ok,
                   calls |-> <<"File::open", "read_to_string">>]
    ELSE [fs |-> f, ret |-> FALSE, out |-> <<>>, panicked |-> FALSE,
          calls |-> <<"File::open">>]

\* ------------------------------------------------------------------ inputs
\* The texts whose bytes fit a file.
Texts == {t \in SeqsUpTo(Chars, MaxLen) : Len(Utf8Encode(t)) <= MaxLen}
\* The byte strings handed to create_file_bytes: none, or one byte.
ByteStrings == {<<>>} \cup {<<b>> : b \in Bytes}

\* No file of the tree is longer than the bound.
WithinLen(f) == \A q \in Paths : Len(f[q].data) <= MaxLen

NoCall == [op |-> "none", path |-> <<>>, path2 |-> <<>>, arg |-> <<>>,
           ret |-> FALSE, out |-> <<>>, panicked |-> FALSE, calls |-> <<>>]

Idle == [pc |-> "idle", path |-> <<>>, ret |-> FALSE]

\* ------------------------------------------------------------------ states
Init ==
    /\ fs = EmptyFs
    /\ pre = EmptyFs
    /\ last = NoCall
    /\ call = [c \in Callers |-> Idle]

\* The working directory holds one directory, "a".
InitFile ==
    /\ fs = [EmptyFs EXCEPT ![<<"a">>] = Dir]
    /\ pre = fs
    /\ last = NoCall
    /\ call = [c \in Callers |-> Idle]

\* One call of a helper, start to return.
Call(op, p, p2, arg, r) ==
    /\ fs' = r.fs
    /\ pre' = fs
    /\ last' = [op |-> op, path |-> p, path2 |-> p2, arg |-> arg, ret |-> r.ret,
                out |-> r.out, panicked |-> r.panicked, calls |-> r.calls]
    /\ UNCHANGED call

CallMkdir ==
    /\ last = NoCall
    /\ \E p \in Paths : Call("mkdir", p, <<>>, <<>>, mkdir(fs, p))

CallRm ==
    /\ last = NoCall
    /\ \E p \in Paths : Call("rm", p, <<>>, <<>>, rm(fs, p))

CallRmdir ==
    /\ last = NoCall
    /\ \E p \in Paths : Call("rmdir", p, <<>>, <<>>, rmdir(fs, p))

CallRmR ==
    /\ last = NoCall
    /\ \E p \in Paths : Call("rm_r", p, <<>>, <<>>, rm_r(fs, p))

CallPathExists ==
    /\ last = NoCall
    /\ \E p \in Paths : Call("path_exists", p, <<>>, <<>>, path_exists(fs, p))

CallDirectoryIsEmpty ==
    /\ last = NoCall
    /\ \E p \in Paths :
           Call("directory_is_empty", p, <<>>, <<>>, directory_is_empty(fs, p))

\* A move that would take a subtree below the path bound is left out.
CallMv ==
    /\ last = NoCall
    /\ \E a, b \in Paths :
           Fits(fs, a, b) /\ Call("mv", a, b, <<>>, mv(fs, a, b))

CallCreateFile ==
    /\ last = NoCall
    /\ \E p \in Paths : Call("create_file", p, <<>>, <<>>, create_file(fs, p))

CallCreateFileBytes ==
    /\ last = NoCall
    /\ \E p \in Paths, b \in ByteStrings :
           Call("create_file_bytes", p, <<>>, b, create_file_bytes(fs, p, b))

CallWriteFile ==
    /\ last = NoCall
    /\ \E p \in Paths, t \in Texts :
           Call("write_file", p, <<>>, t, write_file(fs, p, t))

\* An append that would take the file past the length bound is left out.
CallWriteFileAppend ==
    /\ last = NoCall
    /\ \E p \in Paths, t \in Texts :
           /\ WithinLen(write_file_append(fs, p, t).fs)
           /\ Call("write_file_append", p, <<>>, t, write_file_append(fs, p, t))

CallReadFile ==
    /\ last = NoCall
    /\ \E p \in Paths : Call("read_file", p, <<>>, <<>>, read_file(fs, p))

\* The caller is done with the result of the call.
Return ==
    /\ last # NoCall
    /\ last' = NoCall
    /\ pre' = fs
    /\ UNCHANGED <<fs, call>>

\* Two callers inside mkdir at once: the existence check and the recursive
\* create are separate system calls, and the other caller may run between.
MkdirCheck(c, p) ==
    /\ call[c].pc = "idle"
    /\ call' = [call EXCEPT ![c] =
                   IF path_exists(fs, p).ret
                   THEN [pc |-> "done", path |-> p, ret |-> FALSE]
                   ELSE [pc |-> "create", path |-> p, ret |-> FALSE]]
    /\ UNCHANGED <<fs, pre, last>>

MkdirCreate(c) ==
    /\ call[c].pc = "create"
    /\ LET r == CreateDirAll(fs, call[c].path)
       IN  /\ fs' = r.fs
           /\ call' = [call EXCEPT ![c] = [pc |-> "done", path |-> call[c].path,
                                           ret |-> (r.err = "OK")]]
    /\ UNCHANGED <<pre, last>>

\* The directory and removal helpers, and mv, on a tree of directories and
\* empty files.
Next ==
    \/ CallMkdir
    \/ CallRm
    \/ CallRmdir
    \/ CallRmR
    \/ CallPathExists
    \/ CallDirectoryIsEmpty
    \/ CallMv
    \/ CallCreateFile
    \/ Return

Spec == Init /\ [][Next]_vars

\* The helpers that read and write file contents, and mv and rm on them.
NextFile ==
    \/ CallCreateFile
    \/ CallCreateFileBytes
    \/ CallWriteFile
    \/ CallWriteFileAppend
    \/ CallReadFile
    \/ CallMv
    \/ CallRm
    \/ Return

SpecFile == InitFile /\ [][NextFile]_vars

\* Two callers of mkdir, each inside one call.
NextRace ==
    \/ \E c \in Callers, p \in Paths : MkdirCheck(c, p)
    \/ \E c \in Callers : MkdirCreate(c)

SpecRace == Init /\ [][NextRace]_vars

\* ------------------------------------------------------------------ claims
\* The path and its ancestors, the working directory left out.
Prefixes(p) == {SubSeq(p, 1, k) : k \in 1..Len(p)}

\* No ancestor of p is a regular file: what is missing can be created.
Creatable(f, p) == \A q \in Prefixes(p) : q # p => f[q].kind # "file"

\* The bytes a path holds as a file: none when it is absent.
Held(f, p) == IF f[p].kind = "file" THEN f[p].data ELSE <<>>

\* What read_file hands its caller: the text, or the panic.
Read(f, p) == [out |-> read_file(f, p).out, panicked |-> read_file(f, p).panicked]

\* The std calls that change the filesystem.
Mutating == {"create_dir_all", "remove_file", "remove_dir", "remove_dir_all",
             "rename", "File::create", "open", "write_all"}

\* C1: mkdir(p) of a path that does not exist and whose ancestors are
\* directories or missing returns true; afterwards p and every intermediate
\* directory exist, and mkdir(p) called again at once returns false.
C1_MkdirCreatesAll ==
    (last.op = "mkdir" /\ ~path_exists(pre, last.path).ret /\ Creatable(pre, last.path))
    => /\ last.ret
       /\ \A q \in Prefixes(last.path) : path_exists(fs, q).ret
       /\ ~mkdir(fs, last.path).ret

\* C1 happens: a mkdir that had to create the parent too.
C1_Witness ==
    /\ last.op = "mkdir"
    /\ last.ret
    /\ Len(last.path) >= 2
    /\ ~path_exists(pre, Parent(last.path)).ret

\* C2: write_file(p, s) with p absent or a file, in an existing directory,
\* returns true, and read_file(p) then returns exactly s, whatever the file
\* held before.
C2_WriteThenRead ==
    (last.op = "write_file" /\ IsDir(pre, Parent(last.path))
        /\ pre[last.path].kind \in {"none", "file"})
    => /\ last.ret
       /\ Read(fs, last.path) = [out |-> last.arg, panicked |-> FALSE]

\* C2 happens: a text written over a file that held other bytes.
C2_Witness ==
    /\ last.op = "write_file"
    /\ last.ret
    /\ pre[last.path].kind = "file"
    /\ pre[last.path].data # <<>>
    /\ last.arg # <<>>
    /\ pre[last.path].data # Utf8Encode(last.arg)

\* C3: write_file_append(p, s), with p absent or a file in an existing
\* directory, returns true and leaves the file at p holding what it held
\* (nothing, for an absent file) followed by s; so write_file(p, s1) and then
\* write_file_append(p, s2) reads back as s1 s2, and so do two appends to an
\* absent file.
C3_AppendFollows ==
    /\ (last.op = "write_file_append" /\ IsDir(pre, Parent(last.path))
            /\ pre[last.path].kind \in {"none", "file"})
       => /\ last.ret
          /\ fs[last.path] = RegFile(Held(pre, last.path) \o Utf8Encode(last.arg))
    /\ ((last.op = "write_file"
            \/ (last.op = "write_file_append" /\ pre[last.path].kind = "none"))
        /\ last.ret)
       => \A t \in Texts :
              Read(write_file_append(fs, last.path, t).fs, last.path)
                  = [out |-> last.arg \o t, panicked |-> FALSE]

\* C3 happens: a text appended to a file that held bytes.
C3_Witness ==
    /\ last.op = "write_file_append"
    /\ last.ret
    /\ pre[last.path].kind = "file"
    /\ pre[last.path].data # <<>>
    /\ last.arg # <<>>

\* What C4 promises of a move.
MovedAway ==
    /\ ~path_exists(fs, last.path).ret
    /\ path_exists(fs, last.path2).ret
    /\ Read(fs, last.path2) = Read(pre, last.path)

\* C4 as stated: mv(a, b) with a and the parent of b existing leaves a absent
\* and b present, reading as a did.
C4_MvAsStated ==
    (last.op = "mv" /\ path_exists(pre, last.path).ret
        /\ path_exists(pre, Parent(last.path2)).ret)
    => MovedAway

\* C4 amended: mv(a, b) with a existing, b another path, and the rename
\* succeeding (mv returns true) leaves a absent and b present, reading as a did.
C4_MvWhenRenamed ==
    (last.op = "mv" /\ path_exists(pre, last.path).ret /\ last.path2 # last.path
        /\ last.ret)
    => MovedAway

\* C4 happens: a file holding text moved to another path.
C4_Witness ==
    /\ last.op = "mv"
    /\ last.ret
    /\ last.path2 # last.path
    /\ pre[last.path].kind = "file"
    /\ pre[last.path].data # <<>>

C6_RmRRemovesSubtree ==
    last.op = "rm_r"
    => /\ (path_exists(pre, last.path).ret /\ pre[last.path].kind = "dir")
          => /\ last.ret
             /\ \A q \in Paths :
                    IF IsPrefix(last.path, q) THEN ~path_exists(fs, q).ret
                    ELSE fs[q] = pre[q]
       /\ ~path_exists(pre, last.path).ret => last.ret

\* C6 happens: a directory holding a file and a subdirectory removed, beside
\* a path that stays.
C6_Witness ==
    /\ last.op = "rm_r"
    /\ last.ret
    /\ pre[last.path].kind = "dir"
    /\ \E q \in Paths : Parent(q) = last.path /\ pre[q].kind = "file"
    /\ \E q \in Paths : Parent(q) = last.path /\ pre[q].kind = "dir"
    /\ \E q \in Paths : ~IsPrefix(last.path, q) /\ fs[q].kind # "none"

\* C7: rmdir(path) returns true when it removed the directory and when path
\* did not exist (so repeating it keeps returning true); on a directory with
\* entries it returns false and leaves the directory and its entries.
C7_RmdirOnlyEmpty ==
    last.op = "rmdir"
    => /\ ~path_exists(pre, last.path).ret => last.ret
       /\ (path_exists(pre, last.path).ret /\ ~path_exists(fs, last.path).ret)
          => last.ret
       /\ last.ret => rmdir(fs, last.path).ret
       /\ (pre[last.path].kind = "dir"
            /\ \E q \in Paths : Parent(q) = last.path /\ pre[q].kind # "none")
          => (~last.ret /\ fs = pre)

\* C7 happens: rmdir refused on a directory with an entry.
C7_Witness ==
    /\ last.op = "rmdir"
    /\ ~last.ret
    /\ pre[last.path].kind = "dir"
    /\ \E q \in Paths : Parent(q) = last.path /\ fs[q].kind # "none"

\* C8: rm(p) of a path that does not exist returns false; rm(p) of a file
\* returns true and p no longer exists.
C8_RmFile ==
    last.op = "rm"
    => /\ ~path_exists(pre, last.path).ret => ~last.ret
       /\ (path_exists(pre, last.path).ret /\ pre[last.path].kind = "file")
          => (last.ret /\ ~path_exists(fs, last.path).ret)

\* C8 happens: a file removed.
C8_Witness ==
    /\ last.op = "rm"
    /\ last.ret
    /\ pre[last.path].kind = "file"

\* C9: rm of an absent path, mv of an absent source and mkdir of an existing
\* path return false, make no std call that changes the filesystem, and leave
\* every path as it was.
C9_UnmetLeavesUntouched ==
    (\/ (last.op = "rm" /\ ~path_exists(pre, last.path).ret)
     \/ (last.op = "mv" /\ ~path_exists(pre, last.path).ret)
     \/ (last.op = "mkdir" /\ path_exists(pre, last.path).ret))
    => /\ ~last.ret
       /\ fs = pre
       /\ \A i \in DOMAIN last.calls : last.calls[i] \notin Mutating

\* C9 happens: mv of an absent source onto a path that exists.
C9_Witness ==
    /\ last.op = "mv"
    /\ ~path_exists(pre, last.path).ret
    /\ path_exists(pre, last.path2).ret
    /\ last.path2 # last.path

\* C10: of two callers of mkdir(p) on the same path, absent at the start, at
\* most one gets true.
C10_AtMostOneCreates ==
    \A c, d \in Callers :
        (c # d /\ call[c].pc = "done" /\ call[d].pc = "done"
            /\ call[c].path = call[d].path)
        => ~(call[c].ret /\ call[d].ret)

====
